---- MODULE Spec2Model ----
(***************************************************************************)
(* Upload lifecycle of the Pentaract UI: the upload registry               *)
(* (ui/src/stores/uploadStore.js), the progress-reporting transport        *)
(* (apiMultipartRequestWithProgress) and the close button of the upload    *)
(* panel (ui/src/components/UploadProgress.jsx).                           *)
(*                                                                         *)
(* Two specifications are given.  Spec is the program as it runs: uploads  *)
(* are started by the transport, the browser delivers XMLHttpRequest       *)
(* events, timers fire and the user clicks the close button.  SpecRegistry *)
(* drives the exported registry API with arbitrary calls, for statements   *)
(* about every sequence of registry operations.                            *)
(***************************************************************************)
EXTENDS Integers, Sequences, FiniteSets, TLC

VARIABLES uploadIdCounter, uploads, timers, xhr, promise, alerts, terminalCalls, closed, fired

vars == <<uploadIdCounter, uploads, timers, xhr, promise, alerts, terminalCalls, closed, fired>>

(***************************************************************************)
(* Bounds and input sets                                                   *)
(***************************************************************************)
MaxUploads == 2
MaxTimers == 2
MaxTotal == 3
TickMs == 1500

FileNames == {"a.txt", "b.txt"}
FileSizes == {1000}
Timestamps == {0, 1}
Totals == {0, MaxTotal}
Statuses == {200, 299, 300, 500}
ResponseTexts == {"", "disk full", "{}"}
Percents == {0, 50, 100}
Messages == {"disk full"}

(***************************************************************************)
(* Registry: ui/src/stores/uploadStore.js                                  *)
(***************************************************************************)
AutoRemoveDelay == 3000

\* the `error` property of a record on which failUpload has not acted
NoError == "<undefined>"

NonTerminal == {"pending", "uploading", "processing"}
Terminal == {"completed", "error"}

\* an id made of the timestamp alone
UploadId_TimestampOnly(counter, now) == <<"upload", 0, now>>

\* `upload-${++uploadIdCounter}-${Date.now()}`
UploadId(counter, now) == <<"upload", counter, now>>

UploadIds == {uploads[i].id : i \in 1..Len(uploads)}

\* the snapshot's record of id (only used where id is known)
Record(id) == uploads[CHOOSE i \in 1..Len(uploads) : uploads[i].id = id]

\* startUpload adding the new record at the end
startUpload_Append(fileName, fileSize, now) ==
    /\ uploadIdCounter' = uploadIdCounter + 1
    /\ uploads' = uploads \o <<[id |-> UploadId(uploadIdCounter + 1, now),
                                fileName |-> fileName,
                                fileSize |-> fileSize,
                                progress |-> 0,
                                status |-> "pending",
                                error |-> NoError]>>
    /\ timers' = timers

startUpload(fileName, fileSize, now) ==
    /\ uploadIdCounter' = uploadIdCounter + 1
    /\ uploads' = <<[id |-> UploadId(uploadIdCounter + 1, now),
                     fileName |-> fileName,
                     fileSize |-> fileSize,
                     progress |-> 0,
                     status |-> "pending",
                     error |-> NoError]>> \o uploads
    /\ timers' = timers

\* updateProgress creating the record when the id is unknown
updateProgress_Upsert(id, progress) ==
    /\ uploads' = IF id \in UploadIds
                    THEN [i \in 1..Len(uploads) |->
                            IF uploads[i].id = id
                              THEN [uploads[i] EXCEPT !.progress = progress,
                                                      !.status = "uploading"]
                              ELSE uploads[i]]
                    ELSE <<[id |-> id, fileName |-> "", fileSize |-> 0,
                            progress |-> progress, status |-> "uploading",
                            error |-> NoError]>> \o uploads
    /\ UNCHANGED <<uploadIdCounter, timers>>

\* updateProgress without the test on the id
updateProgress_All(id, progress) ==
    /\ uploads' = [i \in 1..Len(uploads) |->
                     [uploads[i] EXCEPT !.progress = progress, !.status = "uploading"]]
    /\ UNCHANGED <<uploadIdCounter, timers>>

updateProgress(id, progress) ==
    /\ uploads' = [i \in 1..Len(uploads) |->
                     IF uploads[i].id = id
                       THEN [uploads[i] EXCEPT !.progress = progress, !.status = "uploading"]
                       ELSE uploads[i]]
    /\ UNCHANGED <<uploadIdCounter, timers>>

\* setProcessing changing the status only
setProcessing_KeepProgress(id) ==
    /\ uploads' = [i \in 1..Len(uploads) |->
                     IF uploads[i].id = id
                       THEN [uploads[i] EXCEPT !.status = "processing"]
                       ELSE uploads[i]]
    /\ UNCHANGED <<uploadIdCounter, timers>>

setProcessing(id) ==
    /\ uploads' = [i \in 1..Len(uploads) |->
                     IF uploads[i].id = id
                       THEN [uploads[i] EXCEPT !.progress = 100, !.status = "processing"]
                       ELSE uploads[i]]
    /\ UNCHANGED <<uploadIdCounter, timers>>

\* completeUpload without its setTimeout
completeUpload_NoTimer(id) ==
    /\ uploads' = [i \in 1..Len(uploads) |->
                     IF uploads[i].id = id
                       THEN [uploads[i] EXCEPT !.status = "completed"]
                       ELSE uploads[i]]
    /\ UNCHANGED <<uploadIdCounter, timers>>

completeUpload(id) ==
    /\ uploads' = [i \in 1..Len(uploads) |->
                     IF uploads[i].id = id
                       THEN [uploads[i] EXCEPT !.status = "completed"]
                       ELSE uploads[i]]
    /\ timers' = Append(timers, [id |-> id, remaining |-> AutoRemoveDelay])
    /\ UNCHANGED uploadIdCounter

\* failUpload putting the progress back to 0
failUpload_ResetProgress(id, error) ==
    /\ uploads' = [i \in 1..Len(uploads) |->
                     IF uploads[i].id = id
                       THEN [uploads[i] EXCEPT !.status = "error", !.error = error,
                                               !.progress = 0]
                       ELSE uploads[i]]
    /\ UNCHANGED <<uploadIdCounter, timers>>

\* failUpload dropping its message
failUpload_StatusOnly(id, error) ==
    /\ uploads' = [i \in 1..Len(uploads) |->
                     IF uploads[i].id = id
                       THEN [uploads[i] EXCEPT !.status = "error"]
                       ELSE uploads[i]]
    /\ UNCHANGED <<uploadIdCounter, timers>>

failUpload(id, error) ==
    /\ uploads' = [i \in 1..Len(uploads) |->
                     IF uploads[i].id = id
                       THEN [uploads[i] EXCEPT !.status = "error", !.error = error]
                       ELSE uploads[i]]
    /\ UNCHANGED <<uploadIdCounter, timers>>

\* dropping the most recent record, whatever its id
RemoveFrom_Shift(prev, id) == IF prev = <<>> THEN prev ELSE Tail(prev)

\* filter keeping the record of id and dropping the others
RemoveFrom_Others(prev, id) == SelectSeq(prev, LAMBDA upload : upload.id = id)

RemoveFrom(prev, id) == SelectSeq(prev, LAMBDA upload : upload.id # id)

removeUpload(id) ==
    /\ uploads' = RemoveFrom(uploads, id)
    /\ UNCHANGED <<uploadIdCounter, timers>>

\* hasActiveUploads without the test on processing
hasActiveUploads_NoProcessing ==
    \E i \in 1..Len(uploads) :
        uploads[i].status = "pending" \/ uploads[i].status = "uploading"

hasActiveUploads ==
    \E i \in 1..Len(uploads) : uploads[i].status \in NonTerminal

(***************************************************************************)
(* Timers (setTimeout of completeUpload).  All timers have the same delay, *)
(* so the oldest one is always the first to be due.                        *)
(***************************************************************************)
Dec(n) == IF n > TickMs THEN n - TickMs ELSE 0

Tick ==
    /\ \E i \in 1..Len(timers) : timers[i].remaining > 0
    /\ timers' = [i \in 1..Len(timers) |-> [timers[i] EXCEPT !.remaining = Dec(@)]]
    /\ UNCHANGED <<uploadIdCounter, uploads, xhr, promise, alerts, terminalCalls, closed, fired>>

\* the callback of line 84-86: removeUpload(id)
FireTimer ==
    /\ timers # <<>>
    /\ Head(timers).remaining = 0
    /\ uploads' = RemoveFrom(uploads, Head(timers).id)
    /\ timers' = Tail(timers)
    /\ fired' = fired \cup {Head(timers).id}
    /\ UNCHANGED <<uploadIdCounter, xhr, promise, alerts, terminalCalls, closed>>

Init ==
    /\ uploadIdCounter = 0
    /\ uploads = <<>>
    /\ timers = <<>>
    /\ xhr = <<>>
    /\ promise = <<>>
    /\ alerts = <<>>
    /\ terminalCalls = <<>>
    /\ closed = {}
    /\ fired = {}

(***************************************************************************)
(* SpecRegistry: the exported registry operations called in any order      *)
(***************************************************************************)
\* ids a caller can hold: those in the registry, those already removed, and
\* one that was never created
NeverCreated == UploadId(0, 0)
RegistryIds == UploadIds \cup closed \cup fired \cup {NeverCreated}

RStartUpload ==
    /\ uploadIdCounter < MaxUploads
    /\ \E fileName \in FileNames, fileSize \in FileSizes, now \in Timestamps :
         startUpload(fileName, fileSize, now)
    /\ UNCHANGED <<xhr, promise, alerts, terminalCalls, closed, fired>>

RUpdateProgress ==
    /\ \E id \in RegistryIds, progress \in Percents : updateProgress(id, progress)
    /\ UNCHANGED <<xhr, promise, alerts, terminalCalls, closed, fired>>

RSetProcessing ==
    /\ \E id \in RegistryIds : setProcessing(id)
    /\ UNCHANGED <<xhr, promise, alerts, terminalCalls, closed, fired>>

RCompleteUpload ==
    /\ Len(timers) + Cardinality(fired) < MaxTimers
    /\ \E id \in RegistryIds : completeUpload(id)
    /\ UNCHANGED <<xhr, promise, alerts, terminalCalls, closed, fired>>

RFailUpload ==
    /\ \E id \in RegistryIds, error \in Messages : failUpload(id, error)
    /\ UNCHANGED <<xhr, promise, alerts, terminalCalls, closed, fired>>

RRemoveUpload ==
    /\ \E id \in RegistryIds :
         /\ removeUpload(id)
         /\ closed' = IF id \in UploadIds THEN closed \cup {id} ELSE closed
    /\ UNCHANGED <<xhr, promise, alerts, terminalCalls, fired>>

NextRegistry ==
    \/ RStartUpload
    \/ RUpdateProgress
    \/ RSetProcessing
    \/ RCompleteUpload
    \/ RFailUpload
    \/ RRemoveUpload
    \/ Tick
    \/ FireTimer

SpecRegistry == Init /\ [][NextRegistry]_vars

(***************************************************************************)
(* Transport: apiMultipartRequestWithProgress                              *)
(*                                                                         *)
(* xhr[id]     the XMLHttpRequest of the upload that created record id:    *)
(*             phase "sending" (request body in transit), "sent" (the      *)
(*             upload object's load event was delivered) or "done" (one of *)
(*             load, error, abort was delivered, named by final); loaded   *)
(*             and total are the byte counts of the request body in        *)
(*             transit, as the last upload progress event reported them    *)
(*             (0 once the body is no longer in transit); status and       *)
(*             responseText are those of the response (0 and "" while      *)
(*             there is none).                                             *)
(* promise[id] the promise returned to the caller.                         *)
(* alerts      the calls of addAlert, each tagged with the upload whose    *)
(*             handler made it.                                            *)
(* terminalCalls[id]  how many times a handler of the upload has called    *)
(*             completeUpload or failUpload.                               *)
(***************************************************************************)
Pending == [state |-> "pending"]

\* resolve / reject of a promise: only the first settlement counts
resolve(id, value) ==
    promise' = IF promise[id].state = "pending"
                 THEN [promise EXCEPT ![id] = [state |-> "fulfilled", value |-> value]]
                 ELSE promise

reject(id, reason) ==
    promise' = IF promise[id].state = "pending"
                 THEN [promise EXCEPT ![id] = [state |-> "rejected", value |-> reason]]
                 ELSE promise

\* new Error(message)
Error(message) == [name |-> "Error", message |-> message]

Undefined == [name |-> "undefined"]

\* JSON.parse on the response bodies of the model: it throws on the empty
\* string and on plain text, and returns a value on well-formed JSON
JSONParses(text) == text \in {"{}", "[]", "null"}
JSONParse(text) == [name |-> "json", source |-> text]

addAlert(message, severity, by) ==
    alerts' = Append(alerts, [message |-> message, severity |-> severity, by |-> by])

Called(id) ==
    terminalCalls' = [terminalCalls EXCEPT ![id] = @ + 1]

\* Math.floor in place of Math.round
percentComplete_Floor(loaded, total) == (100 * loaded) \div total

\* Math.round((event.loaded / event.total) * 100)
percentComplete(loaded, total) == (200 * loaded + total) \div (2 * total)

\* lines 153-161, 205-211: register the record, create the request, send it
Upload ==
    /\ uploadIdCounter < MaxUploads
    /\ \E fileName \in FileNames, fileSize \in FileSizes, now \in Timestamps, total \in Totals :
         LET uploadId == UploadId(uploadIdCounter + 1, now) IN
         /\ startUpload(fileName, fileSize, now)
         /\ xhr' = (uploadId :> [phase |-> "sending", final |-> "none",
                                  loaded |-> 0, total |-> total,
                                  status |-> 0, responseText |-> ""]) @@ xhr
         /\ promise' = (uploadId :> Pending) @@ promise
         /\ terminalCalls' = (uploadId :> 0) @@ terminalCalls
    /\ UNCHANGED <<alerts, closed, fired>>

\* the listener of lines 163-168; event.lengthComputable is false exactly
\* when the total is 0 (unknown)
OnUploadProgress(uploadId, loaded, total) ==
    IF total # 0
      THEN updateProgress(uploadId, percentComplete(loaded, total))
      ELSE UNCHANGED <<uploadIdCounter, uploads, timers>>

UploadProgress(uploadId) ==
    /\ xhr[uploadId].phase = "sending"
    /\ \E loaded \in xhr[uploadId].loaded..MaxTotal :
         /\ xhr[uploadId].total # 0 => loaded <= xhr[uploadId].total
         /\ xhr' = [xhr EXCEPT ![uploadId].loaded = loaded]
         /\ OnUploadProgress(uploadId, loaded, xhr[uploadId].total)
    /\ UNCHANGED <<promise, alerts, terminalCalls, closed, fired>>

\* the listener of lines 170-173; the browser delivers it after the
\* progress event of the last byte
UploadLoad(uploadId) ==
    /\ xhr[uploadId].phase = "sending"
    /\ xhr[uploadId].total # 0 => xhr[uploadId].loaded = xhr[uploadId].total
    /\ xhr' = [xhr EXCEPT ![uploadId].phase = "sent",
                           ![uploadId].loaded = 0, ![uploadId].total = 0]
    /\ setProcessing(uploadId)
    /\ UNCHANGED <<promise, alerts, terminalCalls, closed, fired>>

\* OnLoad taking status 300 for a success
OnLoad_Upto300(uploadId, status, responseText) ==
    IF status >= 200 /\ status <= 300
      THEN /\ completeUpload(uploadId)
           /\ resolve(uploadId, IF JSONParses(responseText)
                                  THEN JSONParse(responseText)
                                  ELSE Undefined)
           /\ alerts' = alerts
           /\ Called(uploadId)
      ELSE LET errorMsg == IF responseText # ""
                             THEN responseText
                             ELSE "Upload failed with status " \o ToString(status)
           IN /\ failUpload(uploadId, errorMsg)
              /\ addAlert(errorMsg, "error", uploadId)
              /\ reject(uploadId, Error(errorMsg))
              /\ Called(uploadId)

\* OnLoad failing the caller when the body of a success does not parse
OnLoad_RejectUnparsed(uploadId, status, responseText) ==
    IF status >= 200 /\ status < 300
      THEN /\ completeUpload(uploadId)
           /\ IF JSONParses(responseText)
                THEN resolve(uploadId, JSONParse(responseText))
                ELSE reject(uploadId, Error("Unexpected end of JSON input"))
           /\ alerts' = alerts
           /\ Called(uploadId)
      ELSE LET errorMsg == IF responseText # ""
                             THEN responseText
                             ELSE "Upload failed with status " \o ToString(status)
           IN /\ failUpload(uploadId, errorMsg)
              /\ addAlert(errorMsg, "error", uploadId)
              /\ reject(uploadId, Error(errorMsg))
              /\ Called(uploadId)

\* the listener of lines 175-190
OnLoad(uploadId, status, responseText) ==
    IF status >= 200 /\ status < 300
      THEN /\ completeUpload(uploadId)
           /\ resolve(uploadId, IF JSONParses(responseText)
                                  THEN JSONParse(responseText)
                                  ELSE Undefined)
           /\ alerts' = alerts
           /\ Called(uploadId)
      ELSE LET errorMsg == IF responseText # ""
                             THEN responseText
                             ELSE "Upload failed with status " \o ToString(status)
           IN /\ failUpload(uploadId, errorMsg)
              /\ addAlert(errorMsg, "error", uploadId)
              /\ reject(uploadId, Error(errorMsg))
              /\ Called(uploadId)

XhrLoad(uploadId) ==
    /\ xhr[uploadId].phase # "done"
    /\ \E status \in Statuses, responseText \in ResponseTexts :
         /\ xhr' = [xhr EXCEPT ![uploadId].phase = "done", ![uploadId].final = "load",
                                ![uploadId].loaded = 0, ![uploadId].total = 0,
                                ![uploadId].status = status,
                                ![uploadId].responseText = responseText]
         /\ OnLoad(uploadId, status, responseText)
    /\ UNCHANGED <<closed, fired>>

\* the listener of lines 192-197
OnError(uploadId) ==
    LET errorMsg == "Network error during upload" IN
    /\ failUpload(uploadId, errorMsg)
    /\ addAlert(errorMsg, "error", uploadId)
    /\ reject(uploadId, Error(errorMsg))
    /\ Called(uploadId)

XhrError(uploadId) ==
    /\ xhr[uploadId].phase # "done"
    /\ xhr' = [xhr EXCEPT ![uploadId].phase = "done", ![uploadId].final = "error",
                           ![uploadId].loaded = 0, ![uploadId].total = 0]
    /\ OnError(uploadId)
    /\ UNCHANGED <<closed, fired>>

\* OnAbort without its failUpload call
OnAbort_NoFailUpload(uploadId) ==
    LET errorMsg == "Upload cancelled" IN
    /\ UNCHANGED <<uploadIdCounter, uploads, timers>>
    /\ reject(uploadId, Error(errorMsg))
    /\ alerts' = alerts
    /\ terminalCalls' = terminalCalls

\* OnAbort raising an alert as OnError does
OnAbort_Alerting(uploadId) ==
    LET errorMsg == "Upload cancelled" IN
    /\ failUpload(uploadId, errorMsg)
    /\ addAlert(errorMsg, "error", uploadId)
    /\ reject(uploadId, Error(errorMsg))
    /\ Called(uploadId)

\* the listener of lines 199-203
OnAbort(uploadId) ==
    LET errorMsg == "Upload cancelled" IN
    /\ failUpload(uploadId, errorMsg)
    /\ reject(uploadId, Error(errorMsg))
    /\ alerts' = alerts
    /\ Called(uploadId)

XhrAbort(uploadId) ==
    /\ xhr[uploadId].phase # "done"
    /\ xhr' = [xhr EXCEPT ![uploadId].phase = "done", ![uploadId].final = "abort",
                           ![uploadId].loaded = 0, ![uploadId].total = 0]
    /\ OnAbort(uploadId)
    /\ UNCHANGED <<closed, fired>>

(***************************************************************************)
(* Upload panel: the close button is rendered for records in error or      *)
(* completed only, and calls removeUpload.                                 *)
(***************************************************************************)
CloseClick(id) ==
    /\ id \in UploadIds
    /\ Record(id).status = "error" \/ Record(id).status = "completed"
    /\ removeUpload(id)
    /\ closed' = closed \cup {id}
    /\ UNCHANGED <<xhr, promise, alerts, terminalCalls, fired>>

Started == DOMAIN xhr

Next ==
    \/ Upload
    \/ \E uploadId \in Started : UploadProgress(uploadId)
    \/ \E uploadId \in Started : UploadLoad(uploadId)
    \/ \E uploadId \in Started : XhrLoad(uploadId)
    \/ \E uploadId \in Started : XhrError(uploadId)
    \/ \E uploadId \in Started : XhrAbort(uploadId)
    \/ \E id \in UploadIds : CloseClick(id)
    \/ Tick
    \/ FireTimer

Spec == Init /\ [][Next]_vars

(***************************************************************************)
(* Properties                                                              *)
(***************************************************************************)
Succeeded(id) ==
    xhr[id].final = "load" /\ xhr[id].status >= 200 /\ xhr[id].status < 300

ServerFailed(id) ==
    xhr[id].final = "load" /\ ~(xhr[id].status >= 200 /\ xhr[id].status < 300)

AlertsBy(id) == Cardinality({i \in 1..Len(alerts) : alerts[i].by = id})

\* C1: every upload makes exactly one terminal registry call (completeUpload
\* or failUpload) for its record: none while the transfer is running, one
\* once it has ended by load, error or abort, never two; accordingly its
\* record is in a terminal status exactly when the transfer has ended.
C1_ExactlyOneTerminal ==
    \A id \in Started :
        /\ terminalCalls[id] = IF xhr[id].phase = "done" THEN 1 ELSE 0
        /\ id \in UploadIds =>
             (Record(id).status \in Terminal <=> xhr[id].phase = "done")

C1_Witness ==
    \E a, b \in Started :
        /\ a # b
        /\ xhr[a].final = "abort" /\ terminalCalls[a] = 1
        /\ Succeeded(b) /\ terminalCalls[b] = 1
        /\ a \in UploadIds /\ Record(a).status = "error"
        /\ b \in UploadIds /\ Record(b).status = "completed"

\* C2: the number of addAlert calls an upload causes is decided by how it
\* ended: one after a network error or a non-success response, none after a
\* success or an abort, and none while it is running.
C2_AlertsByOutcome ==
    \A id \in Started :
        AlertsBy(id) = IF xhr[id].final = "error" \/ ServerFailed(id) THEN 1 ELSE 0

C2_Witness ==
    \E a, b \in Started :
        /\ xhr[a].final = "abort" /\ AlertsBy(a) = 0
        /\ ServerFailed(b) /\ AlertsBy(b) = 1
        /\ Len(alerts) = 1

\* position of a status on Pending -> Uploading -> Processing -> {Completed | Error}
Rank(status) ==
    CASE status = "pending" -> 0
      [] status = "uploading" -> 1
      [] status = "processing" -> 2
      [] status \in Terminal -> 3

\* C3: whatever registry operations are applied to a record, its status
\* never moves back to an earlier one: across every step, a record that
\* stays in the registry has a status at least as far along as before.
C3_StatusOnlyForward ==
    [][\A id \in UploadIds :
          id \in UploadIds' => Rank(Record(id)'.status) >= Rank(Record(id).status)]_vars

\* C4 as stated: every record that has left Pending and Uploading has
\* progress 100.
C4_Original ==
    \A i \in 1..Len(uploads) :
        uploads[i].status \notin {"pending", "uploading"} => uploads[i].progress = 100

\* C4 as amended: every record in Processing has progress 100; a record that
\* has left Pending and Uploading keeps its progress from then on, and a
\* step that takes a record into Completed or Error leaves its progress as
\* it was (so it may be below 100).
C4_ProgressFrozen ==
    /\ [](\A i \in 1..Len(uploads) :
            uploads[i].status = "processing" => uploads[i].progress = 100)
    /\ [][\A id \in UploadIds :
            id \in UploadIds' =>
              /\ Record(id).status \notin {"pending", "uploading"}
                   => Record(id)'.progress = Record(id).progress
              /\ Record(id)'.status \in Terminal /\ Record(id).status # "processing"
                   => Record(id)'.progress = Record(id).progress]_vars

C4_Witness ==
    \E a, b \in UploadIds :
        /\ Record(a).status = "error" /\ Record(a).progress = 33
        /\ Record(b).status = "processing" /\ Record(b).progress = 100

\* C5: a record carries an error message exactly when its status is Error;
\* the message is never empty, and after a non-success response it is the
\* response body when there is one.
C5_ErrorIffMessage ==
    \A i \in 1..Len(uploads) :
        /\ uploads[i].error # NoError <=> uploads[i].status = "error"
        /\ uploads[i].status = "error" =>
             /\ uploads[i].error # ""
             /\ xhr[uploads[i].id].responseText # ""
                  => uploads[i].error = xhr[uploads[i].id].responseText

C5_Witness ==
    \E a, b \in UploadIds :
        /\ Record(a).status = "error"
        /\ xhr[a].status = 500 /\ xhr[a].responseText = ""
        /\ Record(a).error = "Upload failed with status 500"
        /\ Record(b).status = "completed" /\ Record(b).error = NoError

\* p is x rounded to the nearest integer, halves up, for x = 100 * loaded / total
RoundsTo(p, loaded, total) ==
    /\ 2 * total * p - total <= 200 * loaded
    /\ 200 * loaded < 2 * total * p + total

\* C6: while a record is Uploading its progress is an integer in 0..100,
\* equal to round(loaded / total * 100) of the last progress event, and it
\* never decreases; a progress event without a computable total leaves the
\* registry as it was.
C6_ProgressMonotone ==
    /\ [](\A id \in UploadIds :
            Record(id).status = "uploading" =>
              /\ Record(id).progress \in 0..100
              /\ xhr[id].total > 0
              /\ RoundsTo(Record(id).progress, xhr[id].loaded, xhr[id].total))
    /\ [][\A id \in UploadIds :
            /\ (id \in UploadIds' /\ Record(id).status = "uploading"
                  /\ Record(id)'.status = "uploading")
                 => Record(id)'.progress >= Record(id).progress
            /\ (xhr[id].total = 0 /\ UploadProgress(id)) => uploads' = uploads]_vars

C6_Witness ==
    \E a, b \in UploadIds :
        /\ Record(a).status = "uploading" /\ Record(a).progress = 67
        /\ xhr[a].loaded = 2 /\ xhr[a].total = 3
        /\ xhr[b].phase = "sending" /\ xhr[b].total = 0 /\ xhr[b].loaded > 0
        /\ Record(b).status = "pending"

\* C7 as stated: after completeUpload the record is in the snapshot with
\* status Completed for as long as the delay has not elapsed, and it is
\* absent once the scheduled removal has fired.
C7_Original ==
    /\ \A i \in 1..Len(timers) :
         timers[i].remaining > 0 =>
           timers[i].id \in UploadIds /\ Record(timers[i].id).status = "completed"
    /\ \A id \in fired : id \notin UploadIds

\* C7 as amended: while the delay has not elapsed the record is either in
\* the snapshot with status Completed or has been removed by the close
\* button; it is absent once the scheduled removal has fired.
C7_CompletedUntilRemoved ==
    /\ \A i \in 1..Len(timers) :
         timers[i].remaining > 0 =>
           IF timers[i].id \in UploadIds
             THEN Record(timers[i].id).status = "completed"
             ELSE timers[i].id \in closed
    /\ \A id \in fired : id \notin UploadIds

C7_Witness ==
    /\ \E i \in 1..Len(timers) :
         timers[i].remaining > 0 /\ timers[i].id \in closed /\ timers[i].id \notin UploadIds
    /\ \E id \in fired : id \notin closed
    /\ uploads = <<>>

\* an event of upload a was delivered to its listeners
Event(a) ==
    \/ UploadProgress(a)
    \/ UploadLoad(a)
    \/ XhrLoad(a)
    \/ XhrError(a)
    \/ XhrAbort(a)

\* C8: an event of one upload leaves the record and the promise of every
\* other upload as they were.
C8_NoCrossContamination ==
    [][\A a \in Started :
          Event(a) =>
            \A b \in Started \ {a} :
                /\ promise'[b] = promise[b]
                /\ b \in UploadIds <=> b \in UploadIds'
                /\ b \in UploadIds => Record(b)' = Record(b)]_vars

C8_Witness ==
    \E a, b \in UploadIds :
        /\ xhr[a].final = "abort" /\ Record(a).status = "error"
        /\ promise[a].state = "rejected"
        /\ Record(b).status = "uploading" /\ Record(b).progress = 33
        /\ promise[b].state = "pending"
        /\ Record(a).fileName # Record(b).fileName

\* C9: removeUpload on a record in Pending, Uploading or Processing leaves
\* the collection as it was.
C9_RemoveNonTerminalIsNoOp ==
    [][\A id \in UploadIds :
          (Record(id).status \in NonTerminal /\ removeUpload(id)) => uploads' = uploads]_vars

\* C10: updateProgress, setProcessing, completeUpload and failUpload with an
\* id that is not in the registry change nothing: neither the collection nor
\* the scheduled removals.
C10_UnknownIdIsNoOp ==
    [][\A id \in RegistryIds \ UploadIds :
          (\/ \E progress \in Percents : updateProgress(id, progress)
           \/ setProcessing(id)
           \/ completeUpload(id)
           \/ \E error \in Messages : failUpload(id, error))
            => uploads' = uploads /\ timers' = timers]_vars

\* the ids of the removals scheduled and not yet fired
TimerIds == {timers[i].id : i \in 1..Len(timers)}

\* the messages of the alerts raised for upload id
AlertMessagesBy(id) ==
    {alerts[i].message : i \in {j \in 1..Len(alerts) : alerts[j].by = id}}

\* C11: after a final response with a status outside 200..299 and body b,
\* the record (while it is in the registry) has status Error and error
\* message b, or the message derived from the status when b is empty;
\* addAlert was called exactly once for the upload, with that message and
\* severity error; and the record was never completed (no removal was ever
\* scheduled for it).
C11_ServerFailure ==
    \A id \in Started :
        ServerFailed(id) =>
            LET b == xhr[id].responseText
                message == IF b = "" THEN "Upload failed with status " \o ToString(xhr[id].status)
                                     ELSE b
            IN /\ id \in UploadIds =>
                    Record(id).status = "error" /\ Record(id).error = message
               /\ AlertsBy(id) = 1
               /\ AlertMessagesBy(id) = {message}
               /\ \A i \in 1..Len(alerts) : alerts[i].by = id => alerts[i].severity = "error"
               /\ id \notin TimerIds /\ id \notin fired

C11_Witness ==
    \E a, b \in UploadIds :
        /\ xhr[a].final = "load" /\ xhr[a].status = 500 /\ xhr[a].responseText = "disk full"
        /\ Record(a).status = "error" /\ Record(a).error = "disk full"
        /\ AlertMessagesBy(a) = {"disk full"}
        /\ xhr[b].final = "load" /\ xhr[b].status = 300 /\ xhr[b].responseText = ""
        /\ Record(b).error = "Upload failed with status 300"

\* the cause of a failure: the final event and, for a response, its status
Cause(id) == <<xhr[id].final, xhr[id].status>>

\* C12: every upload that ended by a network error, an abort or a
\* non-success response has failed the caller's promise, and the failure
\* value identifies the cause: two failures with the same value have the
\* same kind (network, server, cancelled) and, for a server failure, the
\* same HTTP status.
C12_TypedErrors ==
    /\ \A id \in Started :
         (xhr[id].phase = "done" /\ ~Succeeded(id)) => promise[id].state = "rejected"
    /\ \A a, b \in Started :
         (/\ promise[a].state = "rejected"
          /\ promise[b].state = "rejected"
          /\ promise[a].value = promise[b].value) => Cause(a) = Cause(b)

\* every id that has left the registry: by removeUpload or by a timer
Removed == closed \cup fired

\* C13: startUpload returns a new id every time: the id of the record it
\* adds is neither in the registry nor among the ids removed before, also
\* when two calls see the same timestamp; so no two records of the registry
\* share an id.
C13_FreshIds ==
    /\ [](\A i, j \in 1..Len(uploads) : uploads[i].id = uploads[j].id => i = j)
    /\ [][uploadIdCounter' # uploadIdCounter =>
            /\ Len(uploads') = Len(uploads) + 1
            /\ uploads'[1].id \notin UploadIds \cup Removed]_vars

C13_Witness ==
    /\ uploadIdCounter = 2
    /\ Len(uploads) = 1
    /\ \E id \in Removed : id[3] = uploads[1].id[3] /\ id[2] = 1

\* the records of a collection other than the one of id, in order
Others(prev, id) ==
    LET keep == {i \in 1..Len(prev) : prev[i].id # id}
        nth[k \in 0..Len(prev)] ==
            IF k = 0 THEN 0 ELSE CHOOSE i \in keep : i > nth[k - 1] /\ \A j \in keep : j > nth[k - 1] => i <= j
    IN [k \in 1..Cardinality(keep) |-> prev[nth[k]]]

\* C14: every removeUpload(id) leaves no record of id, leaves every other
\* record as it was and in the same order, changes nothing when id is not
\* in the registry, and removing id again from the result changes nothing.
C14_RemoveIdempotent ==
    [][\A id \in RegistryIds :
          removeUpload(id) =>
            /\ id \notin UploadIds'
            /\ uploads' = Others(uploads, id)
            /\ id \notin UploadIds => uploads' = uploads
            /\ RemoveFrom(uploads', id) = uploads']_vars

C14_Witness ==
    /\ Len(uploads) = 1
    /\ \E id \in closed : id \notin UploadIds /\ id[2] = 2
    /\ uploads[1].status = "uploading"

\* C15: hasActiveUploads is true exactly when some record is Pending,
\* Uploading or Processing: it is false for the empty collection and for a
\* collection of Completed and Error records only, and true as soon as one
\* record is in neither of these two statuses.
C15_HasActive ==
    /\ uploads = <<>> => ~hasActiveUploads
    /\ hasActiveUploads <=>
         Cardinality({i \in 1..Len(uploads) :
                         uploads[i].status \notin {"completed", "error"}}) > 0
    /\ \A i \in 1..Len(uploads) :
         uploads[i].status \in {"pending", "uploading", "processing", "completed", "error"}

C15_Witness ==
    /\ Len(uploads) = 2
    /\ uploads[1].status = "processing" /\ uploads[2].status = "error"
    /\ hasActiveUploads

\* the ids of a collection, in its order
IdsInOrder(prev) == [i \in 1..Len(prev) |-> prev[i].id]

\* s is t with some elements left out
IsSubsequence(s, t) ==
    \E pick \in SUBSET (1..Len(t)) :
        /\ Cardinality(pick) = Len(s)
        /\ \A k \in 1..Len(s) :
             \E i \in pick : Cardinality({j \in pick : j <= i}) = k /\ t[i] = s[k]

\* C16: the snapshot lists the records most recently created first (the
\* creation counter in the ids decreases along it); startUpload puts the
\* new record, Pending with progress 0, in front of the others, and every
\* other step keeps the records that remain in their order.
C16_ReverseCreationOrder ==
    /\ [](\A i, j \in 1..Len(uploads) : i < j => uploads[i].id[2] > uploads[j].id[2])
    /\ [][IF uploadIdCounter' # uploadIdCounter
            THEN /\ uploads'[1].status = "pending" /\ uploads'[1].progress = 0
                 /\ uploads'[1].id[2] = uploadIdCounter'
                 /\ Tail(uploads') = uploads
            ELSE IsSubsequence(IdsInOrder(uploads'), IdsInOrder(uploads))]_vars

C16_Witness ==
    /\ Len(uploads) = 2
    /\ uploads[1].id[2] = 2 /\ uploads[1].status = "completed"
    /\ uploads[2].id[2] = 1 /\ uploads[2].status = "uploading"
    /\ fired # {}

\* C17: once a listener of an upload has called setProcessing,
\* completeUpload or failUpload (its request is "sent" or "done"), no
\* progress event of that upload is delivered any more, and while the record
\* stays in the registry its progress stays the same and its status is not
\* Uploading again.
C17_NoProgressAfterProcessing ==
    [][\A id \in Started :
          xhr[id].phase \in {"sent", "done"} =>
            /\ ~UploadProgress(id)
            /\ (id \in UploadIds /\ id \in UploadIds') =>
                 /\ Record(id)'.progress = Record(id).progress
                 /\ Record(id)'.status # "uploading"]_vars

C17_Witness ==
    \E a, b \in UploadIds :
        /\ xhr[a].final = "error" /\ Record(a).status = "error" /\ Record(a).progress = 100
        /\ xhr[b].phase = "sending" /\ Record(b).status = "uploading" /\ Record(b).progress = 67

\* C18: after a final response with a status in 200..299 the promise is
\* fulfilled, never rejected: with the parsed value when the body is JSON,
\* with undefined when it is empty or plain text; the record was completed
\* (it has status Completed while the registry holds it, and its removal was
\* scheduled), and no alert was raised for the upload.
C18_SuccessResolves ==
    \A id \in Started :
        Succeeded(id) =>
            /\ promise[id].state = "fulfilled"
            /\ xhr[id].responseText = "{}" =>
                 promise[id].value = [name |-> "json", source |-> "{}"]
            /\ xhr[id].responseText \in {"", "disk full"} =>
                 promise[id].value = [name |-> "undefined"]
            /\ id \in UploadIds => Record(id).status = "completed"
            /\ id \in TimerIds \/ id \in fired
            /\ AlertsBy(id) = 0

C18_Witness ==
    \E a, b \in Started :
        /\ xhr[a].status = 200 /\ xhr[a].responseText = "{}"
        /\ promise[a].state = "fulfilled" /\ promise[a].value.name = "json"
        /\ xhr[b].status = 299 /\ xhr[b].responseText = "disk full"
        /\ promise[b].state = "fulfilled" /\ promise[b].value.name = "undefined"
        /\ alerts = <<>>

\* C19: an id that has been removed from the registry is never in it again,
\* whatever calls and timers follow; a step adds at most one id, only
\* startUpload does, and the id it adds was never in the registry before.
C19_RemovedStaysRemoved ==
    /\ [](\A id \in Removed : id \notin UploadIds)
    /\ [][/\ \A id \in UploadIds \ UploadIds' : id \in Removed'
          /\ \A id \in UploadIds' \ UploadIds :
               /\ uploadIdCounter' = uploadIdCounter + 1
               /\ id = uploads'[1].id
               /\ id \notin Removed]_vars

C19_Witness ==
    /\ \E id \in closed : id # NeverCreated /\ id \notin UploadIds
    /\ \E id \in fired : id # NeverCreated /\ id \notin UploadIds /\ id \notin closed
    /\ uploads = <<>>
    /\ timers # <<>>

(***************************************************************************)
(* FairSpec: every request that was sent ends (the browser delivers load,  *)
(* error or abort), time passes and every due timer fires.  Nothing is     *)
(* assumed about new uploads or about the close button.                    *)
(***************************************************************************)
FinalEvent ==
    \E uploadId \in Started : XhrLoad(uploadId) \/ XhrError(uploadId) \/ XhrAbort(uploadId)

FairSpec ==
    /\ Spec
    /\ WF_vars(FinalEvent)
    /\ WF_vars(Tick)
    /\ WF_vars(FireTimer)

\* every id startUpload can return within the bounds
PossibleIds == {UploadId(c, t) : c \in 1..MaxUploads, t \in Timestamps}

StatusIn(id, statuses) == id \in UploadIds /\ Record(id).status \in statuses

\* C20: under FairSpec, from some point on no record is Pending, Uploading
\* or Processing (hasActiveUploads is false for good) and no record is
\* Completed: as a record never leaves a terminal status except by being
\* removed, every record ends its transfer and every Completed record is
\* removed, with no close click needed; a record in Error leaves the
\* registry only by a close click.
C20_EventuallyIdle ==
    /\ <>[](~hasActiveUploads)
    /\ <>[](\A i \in 1..Len(uploads) : uploads[i].status # "completed")
    /\ [][\A id \in UploadIds :
            (Record(id).status = "error" /\ id \notin UploadIds') => CloseClick(id)]_vars

\* the same, record by record
C20_PerRecord ==
    /\ \A id \in PossibleIds :
         StatusIn(id, NonTerminal) ~> (id \notin UploadIds \/ StatusIn(id, Terminal))
    /\ \A id \in PossibleIds :
         StatusIn(id, {"completed"}) ~> (id \notin UploadIds)

C20_Witness ==
    /\ uploadIdCounter = MaxUploads
    /\ Len(uploads) = 1 /\ uploads[1].status = "error"
    /\ fired # {} /\ closed = {}
    /\ timers = <<>>
    /\ ~hasActiveUploads

====
